---------------------------- MODULE Spec2Model ----------------------------
(***************************************************************************)
(* markdown_to_basic_pdf_bytes of utils_pdf.py: text in, PDF bytes out.    *)
(*                                                                         *)
(* Text is a sequence of Unicode code points and a byte string a sequence  *)
(* of numbers 0..255, so that every length and every offset of the model   *)
(* is the length and offset of the program's strings and bytes.  Each      *)
(* byte-string constant is followed by the Python literal it spells.       *)
(***************************************************************************)
EXTENDS Integers, Sequences, FiniteSets, TLC

VARIABLES
    md_text,     \* the argument of the call
    pc,          \* the statement the call is at
    lines_in,    \* line 20
    raw_i,       \* how many of lines_in the loop of line 32 has consumed
    raw,         \* line 32
    stripped,    \* lines 33, 34
    lines,       \* lines 31-39
    pages,       \* line 41
    pg_i,        \* how many of pages the loop of line 77 has consumed
    objects,     \* line 62
    obj_id,      \* line 64
    font_id,     \* line 74
    page_ids,    \* line 76
    objects2,    \* line 92
    offsets,     \* lines 85, 93
    pdf,         \* lines 86, 94
    xref_start,  \* line 98
    off_i        \* how many of offsets the loop of line 101 has consumed

vars == <<md_text, pc, lines_in, raw_i, raw, stripped, lines, pages, pg_i,
          objects, obj_id, font_id, page_ids, objects2, offsets, pdf,
          xref_start, off_i>>

---------------------------------------------------------------------------
(* Page geometry, lines 22-29.                                             *)

width == 612
height == 792
margin == 54
font_size == 12
leading == 16
max_chars == 90
MinUsableLines == 10

\* Line 27 without its "- 1".
usable_lines_NoMinusOne ==
    LET n == (height - 2 * margin) \div leading
    IN  IF n < MinUsableLines THEN MinUsableLines ELSE n

usable_lines ==
    LET n == ((height - 2 * margin) \div leading) - 1
    IN  IF n < MinUsableLines THEN MinUsableLines ELSE n

---------------------------------------------------------------------------
(* Sequences.                                                              *)

Min(S) == CHOOSE x \in S : \A y \in S : x <= y

Max(S) == CHOOSE x \in S : \A y \in S : y <= x

Rep(c, n) == [i \in 1..n |-> c]

\* The concatenation of ss[lo], ..., ss[hi], by halves.
RECURSIVE Flat(_, _, _)
Flat(ss, lo, hi) ==
    IF lo > hi THEN <<>>
    ELSE IF lo = hi THEN ss[lo]
    ELSE LET mid == (lo + hi) \div 2
         IN  Flat(ss, lo, mid) \o Flat(ss, mid + 1, hi)

Concat(ss) == Flat(ss, 1, Len(ss))

\* sep.join(ss)
Join(sep, ss) ==
    Concat([i \in 1..(2 * Len(ss) - 1) |->
               IF i % 2 = 1 THEN ss[(i + 1) \div 2] ELSE sep])

\* s.replace(k, v) for a one-character k
Replace(s, k, v) ==
    Concat([i \in 1..Len(s) |-> IF s[i] = k THEN v ELSE <<s[i]>>])

\* str(n) of a natural number, in ASCII
RECURSIVE Str(_)
Str(n) == IF n < 10 THEN <<48 + n>> ELSE Str(n \div 10) \o <<48 + (n % 10)>>

\* f"{n:010d}"
Pad10(n) ==
    LET d == Str(n)
    IN  IF Len(d) >= 10 THEN d ELSE Rep(48, 10 - Len(d)) \o d

\* What str.rstrip() and str.strip() without argument take for whitespace.
PyWhitespace ==
    (9..13) \cup (28..32) \cup {133, 160, 5760} \cup (8192..8202)
        \cup {8232, 8233, 8239, 8287, 12288}

\* s.rstrip()
Rstrip(s) ==
    LET K == {i \in 1..Len(s) : s[i] \notin PyWhitespace}
    IN  IF K = {} THEN <<>> ELSE SubSeq(s, 1, Max(K))

\* s.lstrip(chars)
Lstrip(s, chars) ==
    LET K == {i \in 1..Len(s) : s[i] \notin chars}
    IN  IF K = {} THEN <<>> ELSE SubSeq(s, Min(K), Len(s))

\* s.replace("\r\n", "\n"): matches do not overlap, so a "\r" goes exactly
\* when a "\n" follows it.
ReplaceCRLF(s) ==
    Concat([i \in 1..Len(s) |->
               IF s[i] = 13 /\ i < Len(s) /\ s[i + 1] = 10
               THEN <<>> ELSE <<s[i]>>])

\* s.split("\n")
Split(s) ==
    LET N == {i \in 1..Len(s) : s[i] = 10}
        n == Cardinality(N)
        nl(k) == IF k = 0 THEN 0
                 ELSE IF k = n + 1 THEN Len(s) + 1
                 ELSE CHOOSE p \in N : Cardinality({q \in N : q < p}) = k - 1
    IN  [k \in 1..(n + 1) |-> SubSeq(s, nl(k - 1) + 1, nl(k) - 1)]

---------------------------------------------------------------------------
(* _sanitize_for_pdf, lines 2-13.                                          *)

\* The table of lines 3-9, in its order: <<character, replacement>>.
replacements ==
    << <<8220, <<34>>>>, <<8221, <<34>>>>, <<8222, <<34>>>>, <<8223, <<34>>>>,
       <<8216, <<39>>>>, <<8217, <<39>>>>, <<8218, <<39>>>>, <<8219, <<39>>>>,
       <<8211, <<45>>>>, <<8212, <<45>>>>, <<8722, <<45>>>>,
       <<8226, <<45>>>>, <<183, <<45>>>>, <<9658, <<62>>>>,
       <<8594, <<45, 62>>>>, <<8592, <<60, 45>>>>,
       <<10003, <<91, 111, 107, 93>>>>,
       <<8230, <<46, 46, 46>>>>, <<8239, <<32>>>>, <<8194, <<32>>>>,
       <<8195, <<32>>>>, <<160, <<32>>>> >>

\* Lines 10-11: the table's entries applied one after the other.
RECURSIVE ApplyReplacements(_, _)
ApplyReplacements(s, n) ==
    IF n = 0 THEN s
    ELSE Replace(ApplyReplacements(s, n - 1),
                 replacements[n][1], replacements[n][2])

\* Line 12 with "<=" for "<".
AsciiOrQuestion_UpTo128(s) ==
    [i \in 1..Len(s) |-> IF s[i] <= 128 THEN s[i] ELSE 63]

\* Line 12.
AsciiOrQuestion(s) == [i \in 1..Len(s) |-> IF s[i] < 128 THEN s[i] ELSE 63]

sanitize_for_pdf(s) == AsciiOrQuestion(ApplyReplacements(s, Len(replacements)))

---------------------------------------------------------------------------
(* The markup stripper, lines 17-20 and 33.                                *)

\* Lines 17-19.
Plain(text) == Replace(ReplaceCRLF(text), 96, <<>>)

\* Line 20.
LinesIn(text) == LET ls == Split(Plain(text))
                 IN  [i \in 1..Len(ls) |-> Rstrip(ls[i])]

\* Line 33 with its first lstrip only.
StripMarkers_HashOnly(line) == Lstrip(line, {35, 32})

\* Line 33: raw.lstrip("# ").lstrip("* ").lstrip("- ").lstrip("> ")
StripMarkers(line) ==
    Lstrip(Lstrip(Lstrip(Lstrip(line, {35, 32}), {42, 32}), {45, 32}), {62, 32})

---------------------------------------------------------------------------
(* textwrap.wrap(stripped, width=max_chars), line 38, with the defaults of *)
(* TextWrapper: expand_tabs, replace_whitespace, drop_whitespace,          *)
(* break_long_words and break_on_hyphens on, tabsize 8, no indent.  The    *)
(* text it is given is ASCII (line 34).                                    *)

TwWhitespace == {9, 10, 11, 12, 13, 32}

IsLetter(c) == c \in (65..90) \cup (97..122) \cup {95}

IsWordChar(c) == IsLetter(c) \/ c \in 48..57

\* word_punct: [\w!"'&.,?]
IsWordPunct(c) == IsWordChar(c) \/ c \in {33, 34, 39, 38, 46, 44, 63}

\* The character at position i, -1 outside the text.
At(t, i) == IF i >= 1 /\ i <= Len(t) THEN t[i] ELSE -1

\* str.expandtabs(8): a tab fills up to the next multiple of 8 columns, the
\* column counted from the last "\n" or "\r".
RECURSIVE ExpandTabs(_)
ExpandTabs(s) ==
    LET T == {i \in 1..Len(s) : s[i] = 9}
    IN  IF T = {} THEN s
        ELSE LET i == Min(T)
                 B == {j \in 1..(i - 1) : s[j] \in {10, 13}}
                 col == (i - 1) - (IF B = {} THEN 0 ELSE Max(B))
             IN  SubSeq(s, 1, i - 1) \o Rep(32, 8 - (col % 8))
                     \o ExpandTabs(SubSeq(s, i + 1, Len(s)))

\* _munge_whitespace
MungeWhitespace(text) ==
    LET s == ExpandTabs(text)
    IN  [i \in 1..Len(s) |-> IF s[i] \in TwWhitespace THEN 32 ELSE s[i]]

\* The length of the run of "-" that starts at p.
HyphenRun(t, p) == Min({i \in p..(Len(t) + 1) : At(t, i) # 45}) - p

\* -{2,} followed by \w, at p
EmDashAt(t, p) ==
    HyphenRun(t, p) >= 2 /\ IsWordChar(At(t, p + HyphenRun(t, p)))

\* The "-" at h closes a hyphenated part: letters before it, letters after.
HyphenBreakAt(t, h) ==
    /\ At(t, h) = 45
    /\ \/ IsLetter(At(t, h - 2)) /\ IsLetter(At(t, h - 1))
       \/ IsLetter(At(t, h - 3)) /\ At(t, h - 2) = 45 /\ IsLetter(At(t, h - 1))
    /\ IsLetter(At(t, h + 1))
    /\ \/ IsLetter(At(t, h + 2))
       \/ At(t, h + 2) = 45 /\ IsLetter(At(t, h + 3))

\* The last position of the match of wordsep_re that starts at p: a run of
\* whitespace, an em-dash between words, or the shortest run of
\* non-whitespace that ends after a breaking hyphen, before whitespace or
\* the end, or before an em-dash.
ChunkEnd(t, p) ==
    IF t[p] \in TwWhitespace
    THEN Min({i \in p..(Len(t) + 1) : At(t, i) \notin TwWhitespace}) - 1
    ELSE IF IsWordPunct(At(t, p - 1)) /\ EmDashAt(t, p)
    THEN p + HyphenRun(t, p) - 1
    ELSE LET ends(e) == \/ HyphenBreakAt(t, e + 1)
                        \/ e = Len(t)
                        \/ At(t, e + 1) \in TwWhitespace
                        \/ IsWordPunct(t[e]) /\ EmDashAt(t, e + 1)
             e == Min({x \in p..Len(t) : ends(x)})
         IN  IF HyphenBreakAt(t, e + 1) THEN e + 1 ELSE e

\* _split: the chunks of t from position p on.
RECURSIVE ChunksFrom(_, _)
ChunksFrom(t, p) ==
    IF p > Len(t) THEN <<>>
    ELSE LET e == ChunkEnd(t, p)
         IN  <<SubSeq(t, p, e)>> \o ChunksFrom(t, e + 1)

\* chunk.strip() == ''
IsBlank(chunk) == \A i \in 1..Len(chunk) : chunk[i] \in PyWhitespace

\* _handle_long_word with break_long_words off: the chunk stays whole.
LongWordCut_Whole(chunk, space_left) == Len(chunk)

\* _handle_long_word: how much of a chunk longer than the width goes on a
\* line with space_left columns left: up to the last hyphen that fits and
\* has a non-hyphen before it, or else all that fits.
LongWordCut(chunk, space_left) ==
    LET H == {j \in 1..space_left : chunk[j] = 45}
    IN  IF H # {} /\ Max(H) >= 2 /\ (\E i \in 1..(Max(H) - 1) : chunk[i] # 45)
        THEN Max(H)
        ELSE space_left

\* _wrap_chunks: one round of its outer loop per line.
RECURSIVE WrapChunks(_, _, _)
WrapChunks(chunks, w, done) ==
    IF chunks = <<>> THEN done
    ELSE LET c1 == IF IsBlank(chunks[1]) /\ done # <<>>
                   THEN Tail(chunks) ELSE chunks
             k == Max({j \in 0..Len(c1) : Len(Flat(c1, 1, j)) <= w})
             fit == SubSeq(c1, 1, k)
             rest == SubSeq(c1, k + 1, Len(c1))
             long == rest # <<>> /\ Len(rest[1]) > w
             cut == LongWordCut(rest[1], w - Len(Concat(fit)))
             cur == IF long THEN Append(fit, SubSeq(rest[1], 1, cut)) ELSE fit
             left == IF long
                     THEN <<SubSeq(rest[1], cut + 1, Len(rest[1]))>> \o Tail(rest)
                     ELSE rest
             kept == IF cur # <<>> /\ IsBlank(cur[Len(cur)])
                     THEN SubSeq(cur, 1, Len(cur) - 1) ELSE cur
         IN  WrapChunks(left, w, IF kept # <<>> THEN Append(done, Concat(kept))
                                 ELSE done)

wrap(text, w) == WrapChunks(ChunksFrom(MungeWhitespace(text), 1), w, <<>>)

\* Lines 35-39 with line 36 left out: an empty line adds nothing.
WrapLine_DropBlank(s) == IF s = <<>> THEN <<>> ELSE wrap(s, max_chars)

\* Lines 35-39: the physical lines of one stripped, sanitized line.
WrapLine(s) ==
    LET wrapped == wrap(s, max_chars)
    IN  IF s = <<>> THEN << <<>> >>
        ELSE IF wrapped = <<>> THEN << <<>> >> ELSE wrapped

\* Line 41.
Paginate(ls) ==
    IF ls = <<>> THEN << <<>> >>
    ELSE [p \in 1..((Len(ls) + usable_lines - 1) \div usable_lines) |->
             SubSeq(ls, (p - 1) * usable_lines + 1,
                    IF p * usable_lines < Len(ls) THEN p * usable_lines
                    ELSE Len(ls))]

---------------------------------------------------------------------------
(* The literals of the content stream, the objects and the file frame.     *)

\* b'%PDF-1.4\n%\xe2\xe3\xcf\xd3\n'
PDF_HEADER ==
    <<37, 80, 68, 70, 45, 49, 46, 52, 10, 37, 226, 227, 207, 211, 10>>

\* b'<< /Type /Catalog /Pages 2 0 R >>'
CATALOG ==
    <<60, 60, 32, 47, 84, 121, 112, 101, 32, 47, 67, 97, 116, 97, 108, 111,
      103, 32, 47, 80, 97, 103, 101, 115, 32, 50, 32, 48, 32, 82, 32, 62,
      62>>

\* b'<< /Type /Pages /Kids [] /Count 0 >>'
PAGES_PLACEHOLDER ==
    <<60, 60, 32, 47, 84, 121, 112, 101, 32, 47, 80, 97, 103, 101, 115, 32,
      47, 75, 105, 100, 115, 32, 91, 93, 32, 47, 67, 111, 117, 110, 116,
      32, 48, 32, 62, 62>>

\* b'<< /Type /Font /Subtype /Type1 /BaseFont /Helvetica /Name /F1 >>'
FONT ==
    <<60, 60, 32, 47, 84, 121, 112, 101, 32, 47, 70, 111, 110, 116, 32, 47,
      83, 117, 98, 116, 121, 112, 101, 32, 47, 84, 121, 112, 101, 49, 32,
      47, 66, 97, 115, 101, 70, 111, 110, 116, 32, 47, 72, 101, 108, 118,
      101, 116, 105, 99, 97, 32, 47, 78, 97, 109, 101, 32, 47, 70, 49, 32,
      62, 62>>

\* b'BT'
B_BT ==
    <<66, 84>>

\* b'/F1 '
B_F1 ==
    <<47, 70, 49, 32>>

\* b' Tf'
B_Tf ==
    <<32, 84, 102>>

\* b' Td'
B_Td ==
    <<32, 84, 100>>

\* b' TL'
B_TL ==
    <<32, 84, 76>>

\* b'T*'
B_Tstar ==
    <<84, 42>>

\* b') Tj'
B_Tj ==
    <<41, 32, 84, 106>>

\* b'ET'
B_ET ==
    <<69, 84>>

\* b'<< /Length '
B_Length ==
    <<60, 60, 32, 47, 76, 101, 110, 103, 116, 104, 32>>

\* b' >>\nstream\n'
B_stream ==
    <<32, 62, 62, 10, 115, 116, 114, 101, 97, 109, 10>>

\* b'\nendstream\n'
B_endstream ==
    <<10, 101, 110, 100, 115, 116, 114, 101, 97, 109, 10>>

\* b'<< /Type /Page /Parent 2 0 R /MediaBox [0 0 '
B_PageA ==
    <<60, 60, 32, 47, 84, 121, 112, 101, 32, 47, 80, 97, 103, 101, 32, 47,
      80, 97, 114, 101, 110, 116, 32, 50, 32, 48, 32, 82, 32, 47, 77, 101,
      100, 105, 97, 66, 111, 120, 32, 91, 48, 32, 48, 32>>

\* b'] /Resources << /Font << /F1 '
B_PageB ==
    <<93, 32, 47, 82, 101, 115, 111, 117, 114, 99, 101, 115, 32, 60, 60,
      32, 47, 70, 111, 110, 116, 32, 60, 60, 32, 47, 70, 49, 32>>

\* b' 0 R >> >> /Contents '
B_PageC ==
    <<32, 48, 32, 82, 32, 62, 62, 32, 62, 62, 32, 47, 67, 111, 110, 116,
      101, 110, 116, 115, 32>>

\* b' 0 R >>'
B_PageD ==
    <<32, 48, 32, 82, 32, 62, 62>>

\* b' 0 obj\n'
B_obj ==
    <<32, 48, 32, 111, 98, 106, 10>>

\* b'endobj\n'
B_endobj ==
    <<101, 110, 100, 111, 98, 106, 10>>

\* b' 0 R'
B_R ==
    <<32, 48, 32, 82>>

\* b'<< /Type /Pages /Kids ['
B_PagesA ==
    <<60, 60, 32, 47, 84, 121, 112, 101, 32, 47, 80, 97, 103, 101, 115, 32,
      47, 75, 105, 100, 115, 32, 91>>

\* b'] /Count '
B_PagesB ==
    <<93, 32, 47, 67, 111, 117, 110, 116, 32>>

\* b' >>'
B_PagesC ==
    <<32, 62, 62>>

\* b'xref\n0 '
B_xref ==
    <<120, 114, 101, 102, 10, 48, 32>>

\* b'0000000000 65535 f \n'
B_free ==
    <<48, 48, 48, 48, 48, 48, 48, 48, 48, 48, 32, 54, 53, 53, 51, 53, 32,
      102, 32, 10>>

\* b' 00000 n \n'
B_inuse ==
    <<32, 48, 48, 48, 48, 48, 32, 110, 32, 10>>

\* b'trailer\n'
B_trailer ==
    <<116, 114, 97, 105, 108, 101, 114, 10>>

\* b'<< /Size '
B_SizeA ==
    <<60, 60, 32, 47, 83, 105, 122, 101, 32>>

\* b' /Root 1 0 R >>\n'
B_SizeB ==
    <<32, 47, 82, 111, 111, 116, 32, 49, 32, 48, 32, 82, 32, 62, 62, 10>>

\* b'startxref\n'
B_startxref ==
    <<115, 116, 97, 114, 116, 120, 114, 101, 102, 10>>

\* b'%%EOF'
B_EOF ==
    <<37, 37, 69, 79, 70>>

---------------------------------------------------------------------------
(* make_page, lines 43-60.                                                 *)

\* Line 54 with the parentheses escaped before the backslash.
escape_ParensFirst(line) ==
    Replace(Replace(Replace(line, 40, <<92, 40>>), 41, <<92, 41>>),
            92, <<92, 92>>)

\* Line 54: the backslash first, then "(" and then ")".
escape(line) ==
    Replace(Replace(Replace(line, 92, <<92, 92>>), 40, <<92, 40>>),
            41, <<92, 41>>)

\* Lines 55-58: what the i-th line of a page adds to content_lines.
ShowText(page_lines, i) ==
    (IF i = 1 THEN <<>> ELSE <<B_Tstar>>)
        \o << <<40>> \o escape(page_lines[i]) \o B_Tj >>

start_x == margin

start_y == height - margin

content_lines(page_lines) ==
    <<B_BT,
      B_F1 \o Str(font_size) \o B_Tf,
      Str(start_x) \o <<32>> \o Str(start_y) \o B_Td,
      Str(leading) \o B_TL>>
        \o Concat([i \in 1..Len(page_lines) |-> ShowText(page_lines, i)])
        \o <<B_ET>>

\* s.encode("ascii", "ignore")
EncodeAsciiIgnore(s) == SelectSeq(s, LAMBDA c : c < 128)

make_page(page_lines) == EncodeAsciiIgnore(Join(<<10>>, content_lines(page_lines)))

---------------------------------------------------------------------------
(* The objects, lines 62-83.                                               *)

\* s.encode("utf-8")
EncodeUtf8(s) ==
    Concat([i \in 1..Len(s) |->
        IF s[i] < 128 THEN <<s[i]>>
        ELSE IF s[i] < 2048
        THEN <<192 + (s[i] \div 64), 128 + (s[i] % 64)>>
        ELSE IF s[i] < 65536
        THEN <<224 + (s[i] \div 4096), 128 + ((s[i] \div 64) % 64),
               128 + (s[i] % 64)>>
        ELSE <<240 + (s[i] \div 262144), 128 + ((s[i] \div 4096) % 64),
               128 + ((s[i] \div 64) % 64), 128 + (s[i] % 64)>>])

\* add_object returning the counter after it is raised.
add_object_ReturnsNext(objs, id, obj_bytes) ==
    [objects |-> Append(objs, obj_bytes), obj_id |-> id + 1, ret |-> id + 1]

\* add_object, lines 66-70: the list and the counter after the call, and
\* the identifier it returns.
add_object(objs, id, obj_bytes) ==
    [objects |-> Append(objs, obj_bytes), obj_id |-> id + 1, ret |-> id]

\* Line 79 with the newline before "endstream" counted in.
content_obj_CountsNewline(stream) ==
    B_Length \o Str(Len(stream) + 1) \o B_stream \o stream \o B_endstream

\* Line 79.
content_obj(stream) ==
    B_Length \o Str(Len(stream)) \o B_stream \o stream \o B_endstream

\* Line 81.
page_dict(fid, content_id) ==
    B_PageA \o Str(width) \o <<32>> \o Str(height) \o B_PageB \o Str(fid)
        \o B_PageC \o Str(content_id) \o B_PageD

\* Lines 90-91.
pages_obj(pids) ==
    B_PagesA \o Join(<<32>>, [k \in 1..Len(pids) |-> Str(pids[k]) \o B_R])
        \o B_PagesB \o Str(Len(pids)) \o B_PagesC

\* Lines 88, 96 with the offset counted from 1.
RecordOffset_FromOne(offs, buf) == Append(offs, Len(buf) + 1)

\* Lines 88, 96: an object's offset is the length of the buffer before it.
RecordOffset(offs, buf) == Append(offs, Len(buf))

\* Lines 89, 97: object i as the file holds it.
Emit(buf, i, obj) == buf \o Str(i) \o B_obj \o obj \o B_endobj

\* Line 92 with objects[1:] for objects[2:].
Objects2_FromSecond(objs, pids) ==
    <<CATALOG, pages_obj(pids)>> \o SubSeq(objs, 2, Len(objs))

\* Line 92.
Objects2(objs, pids) ==
    <<CATALOG, pages_obj(pids)>> \o SubSeq(objs, 3, Len(objs))

---------------------------------------------------------------------------
(* The call, statement by statement.                                       *)

InitOn(texts) ==
    /\ md_text \in texts
    /\ pc = "start"
    /\ lines_in = <<>>
    /\ raw_i = 0
    /\ raw = <<>>
    /\ stripped = <<>>
    /\ lines = <<>>
    /\ pages = <<>>
    /\ pg_i = 0
    /\ objects = <<>>
    /\ obj_id = 0
    /\ font_id = 0
    /\ page_ids = <<>>
    /\ objects2 = <<>>
    /\ offsets = <<>>
    /\ pdf = <<>>
    /\ xref_start = 0
    /\ off_i = 0

\* Lines 17-31.
Strip ==
    /\ pc = "start"
    /\ lines_in' = LinesIn(md_text)
    /\ lines' = <<>>
    /\ raw_i' = 0
    /\ pc' = "loop"
    /\ UNCHANGED <<md_text, raw, stripped, pages, pg_i, objects, obj_id,
                   font_id, page_ids, objects2, offsets, pdf, xref_start,
                   off_i>>

\* Lines 32-33: the next line of lines_in, its leading markers stripped.
StripLine ==
    /\ pc = "loop"
    /\ raw_i < Len(lines_in)
    /\ raw' = lines_in[raw_i + 1]
    /\ raw_i' = raw_i + 1
    /\ stripped' = StripMarkers(lines_in[raw_i + 1])
    /\ pc' = "sanitize"
    /\ UNCHANGED <<md_text, lines_in, lines, pages, pg_i, objects, obj_id,
                   font_id, page_ids, objects2, offsets, pdf, xref_start,
                   off_i>>

\* Line 34.
SanitizeLine ==
    /\ pc = "sanitize"
    /\ stripped' = sanitize_for_pdf(stripped)
    /\ pc' = "wrap"
    /\ UNCHANGED <<md_text, lines_in, raw_i, raw, lines, pages, pg_i,
                   objects, obj_id, font_id, page_ids, objects2, offsets,
                   pdf, xref_start, off_i>>

\* Lines 35-39.
WrapStripped ==
    /\ pc = "wrap"
    /\ lines' = lines \o WrapLine(stripped)
    /\ pc' = "loop"
    /\ UNCHANGED <<md_text, lines_in, raw_i, raw, stripped, pages, pg_i,
                   objects, obj_id, font_id, page_ids, objects2, offsets,
                   pdf, xref_start, off_i>>

\* Line 41.
PaginateLines ==
    /\ pc = "loop"
    /\ raw_i = Len(lines_in)
    /\ pages' = Paginate(lines)
    /\ pc' = "objects"
    /\ UNCHANGED <<md_text, lines_in, raw_i, raw, stripped, lines, pg_i,
                   objects, obj_id, font_id, page_ids, objects2, offsets,
                   pdf, xref_start, off_i>>

\* Lines 62-76.
FixedObjects ==
    /\ pc = "objects"
    /\ LET catalog == add_object(<<>>, 1, CATALOG)
           tree == add_object(catalog.objects, catalog.obj_id, PAGES_PLACEHOLDER)
           font == add_object(tree.objects, tree.obj_id, FONT)
       IN  /\ objects' = font.objects
           /\ obj_id' = font.obj_id
           /\ font_id' = font.ret
    /\ page_ids' = <<>>
    /\ pg_i' = 0
    /\ pc' = "pages"
    /\ UNCHANGED <<md_text, lines_in, raw_i, raw, stripped, lines, pages,
                   objects2, offsets, pdf, xref_start, off_i>>

\* Lines 77-83, one page.
BuildPage ==
    /\ pc = "pages"
    /\ pg_i < Len(pages)
    /\ LET stream == make_page(pages[pg_i + 1])
           content == add_object(objects, obj_id, content_obj(stream))
           page == add_object(content.objects, content.obj_id,
                              EncodeUtf8(page_dict(font_id, content.ret)))
       IN  /\ objects' = page.objects
           /\ obj_id' = page.obj_id
           /\ page_ids' = Append(page_ids, page.ret)
    /\ pg_i' = pg_i + 1
    /\ UNCHANGED <<md_text, pc, lines_in, raw_i, raw, stripped, lines, pages,
                   font_id, objects2, offsets, pdf, xref_start, off_i>>

\* Lines 85-86.
BeginFirstPass ==
    /\ pc = "pages"
    /\ pg_i = Len(pages)
    /\ offsets' = <<>>
    /\ pdf' = PDF_HEADER
    /\ pc' = "pass1"
    /\ UNCHANGED <<md_text, lines_in, raw_i, raw, stripped, lines, pages,
                   pg_i, objects, obj_id, font_id, page_ids, objects2,
                   xref_start, off_i>>

\* Lines 87-89, one object.
FirstPassObject ==
    /\ pc = "pass1"
    /\ Len(offsets) < Len(objects)
    /\ offsets' = RecordOffset(offsets, pdf)
    /\ pdf' = Emit(pdf, Len(offsets) + 1, objects[Len(offsets) + 1])
    /\ UNCHANGED <<md_text, pc, lines_in, raw_i, raw, stripped, lines, pages,
                   pg_i, objects, obj_id, font_id, page_ids, objects2,
                   xref_start, off_i>>

\* Lines 90-94: the Pages object is built again, now with its kids, and the
\* buffer and the offsets start over.
RebuildPages ==
    /\ pc = "pass1"
    /\ Len(offsets) = Len(objects)
    /\ objects2' = Objects2(objects, page_ids)
    /\ offsets' = <<>>
    /\ pdf' = PDF_HEADER
    /\ pc' = "pass2"
    /\ UNCHANGED <<md_text, lines_in, raw_i, raw, stripped, lines, pages,
                   pg_i, objects, obj_id, font_id, page_ids, xref_start,
                   off_i>>

\* Lines 95-97, one object.
SecondPassObject ==
    /\ pc = "pass2"
    /\ Len(offsets) < Len(objects2)
    /\ offsets' = RecordOffset(offsets, pdf)
    /\ pdf' = Emit(pdf, Len(offsets) + 1, objects2[Len(offsets) + 1])
    /\ UNCHANGED <<md_text, pc, lines_in, raw_i, raw, stripped, lines, pages,
                   pg_i, objects, obj_id, font_id, page_ids, objects2,
                   xref_start, off_i>>

\* Lines 98-100.
XrefBegin ==
    /\ pc = "pass2"
    /\ Len(offsets) = Len(objects2)
    /\ xref_start' = Len(pdf)
    /\ pdf' = pdf \o B_xref \o Str(Len(objects2) + 1) \o <<10>> \o B_free
    /\ off_i' = 0
    /\ pc' = "xref"
    /\ UNCHANGED <<md_text, lines_in, raw_i, raw, stripped, lines, pages,
                   pg_i, objects, obj_id, font_id, page_ids, objects2,
                   offsets>>

\* Lines 101-102, one entry.
XrefEntry ==
    /\ pc = "xref"
    /\ off_i < Len(offsets)
    /\ pdf' = pdf \o Pad10(offsets[off_i + 1]) \o B_inuse
    /\ off_i' = off_i + 1
    /\ UNCHANGED <<md_text, pc, lines_in, raw_i, raw, stripped, lines, pages,
                   pg_i, objects, obj_id, font_id, page_ids, objects2,
                   offsets, xref_start>>

\* Lines 103-108.
Trailer ==
    /\ pc = "xref"
    /\ off_i = Len(offsets)
    /\ pdf' = pdf \o B_trailer \o B_SizeA \o Str(Len(objects2) + 1) \o B_SizeB
                  \o B_startxref \o Str(xref_start) \o <<10>> \o B_EOF
    /\ pc' = "done"
    /\ UNCHANGED <<md_text, lines_in, raw_i, raw, stripped, lines, pages,
                   pg_i, objects, obj_id, font_id, page_ids, objects2,
                   offsets, xref_start, off_i>>

Next ==
    \/ Strip
    \/ StripLine
    \/ SanitizeLine
    \/ WrapStripped
    \/ PaginateLines
    \/ FixedObjects
    \/ BuildPage
    \/ BeginFirstPass
    \/ FirstPassObject
    \/ RebuildPages
    \/ SecondPassObject
    \/ XrefBegin
    \/ XrefEntry
    \/ Trailer

---------------------------------------------------------------------------
(* The texts the call is checked on.                                       *)

MaxPages == 2
MaxMarkers == 2
MaxChars == 2
MaxPieces == 2

\* All sequences over S of length at most n.
RECURSIVE SeqsUpTo(_, _)
SeqsUpTo(S, n) ==
    IF n = 0 THEN {<<>>}
    ELSE LET shorter == SeqsUpTo(S, n - 1)
         IN  shorter \cup {Append(s, c) : s \in shorter, c \in S}

\* Texts of n lines for every n next to a page boundary, up to MaxPages full
\* pages and one line more.  Line i is two letters that spell i; every
\* seventh line is empty.
Label(i) == IF i % 7 = 0 THEN <<>> ELSE <<97 + (i \div 26), 97 + (i % 26)>>

PageLineCounts ==
    {n \in 1..(MaxPages * usable_lines + 1) :
        \E k \in 0..MaxPages : n \in {k * usable_lines - 1, k * usable_lines,
                                      k * usable_lines + 1}}

PagingTexts == {Join(<<10>>, [i \in 1..n |-> Label(i)]) : n \in PageLineCounts}

\* One line: up to MaxMarkers of "#", "*", "-", ">" and " ", then a body
\* with such characters and backticks inside it.
MarkerChars == {35, 42, 45, 62, 32}

Bodies ==
    { <<>>,                                \* ""
      <<97>>,                              \* "a"
      <<97, 35, 98>>,                      \* "a#b"
      <<96, 97, 32, 45, 32, 98, 96>>,      \* "`a - b`"
      <<120, 32, 62, 42>> }                \* "x >*"

MarkupTexts == {m \o b : m \in SeqsUpTo(MarkerChars, MaxMarkers), b \in Bodies}

\* Up to MaxChars characters in and out of the table of _sanitize_for_pdf,
\* on both sides of code point 128, and the three characters make_page
\* escapes.
OddChars == {8220, 8594, 10003, 160, 233, 128, 92, 40, 41}

OddTexts ==
    {<<97>> \o s \o <<98>> : s \in SeqsUpTo(OddChars, MaxChars)}
        \cup {<<40, 118, 97, 108, 117, 101, 41>>}             \* "(value)"


\* One line of up to MaxPieces pieces with a space between two: words as
\* long as the width, one shorter, one longer and more than twice as long,
\* words with hyphens and dashes, a tab and more spaces.
Pieces ==
    { <<97>>,
      Rep(97, max_chars),
      Rep(97, max_chars + 1),
      Rep(97, 2 * max_chars + 1),
      Rep(97, 50) \o <<45>> \o Rep(98, 50),     \* breaks at the hyphen
      Rep(49, 50) \o <<45>> \o Rep(49, 50),     \* digits: cut as a long word
      <<97, 45, 45, 98>>,                       \* "a--b"
      <<97, 9, 98>>,                            \* "a<TAB>b"
      <<32>> }

WrapTexts ==
    {Join(<<32>>, ps) : ps \in SeqsUpTo(Pieces, MaxPieces)}

\* Several lines, "\r\n" and "\n" ends, and the scenarios of the
\* specification.
SampleTexts ==
    { <<>>,                                                   \* ""
      <<35, 32, 72, 101, 108, 108, 111, 10,
        87, 111, 114, 108, 100>>,                             \* "# Hello\nWorld"
      <<40, 118, 97, 108, 117, 101, 41>>,                     \* "(value)"
      <<8220, 116, 101, 115, 116, 8221>>,                     \* curly-quoted test
      <<97, 13, 10, 98, 32, 13, 10, 13, 99, 10>>,             \* "a\r\nb \r\n\rc\n"
      <<97, 32, 40, 98, 41, 10, 99, 92, 100>>,                \* "a (b)\nc\d"
      <<160, 97>>,                                            \* NBSP, "a"
      <<35, 32, 160>>,                                        \* "# ", NBSP
      <<45, 32>> \o Rep(120, max_chars + 1) \o <<32, 8594>>,   \* a long word
      <<96, 9, 233, 96>> }                                    \* a tab, e acute

\* The call on texts of whole pages and on the samples.
Texts == PagingTexts \cup SampleTexts

Init == InitOn(Texts)

Spec == Init /\ [][Next]_vars

\* The call on the lines with markers.
InitMarkup == InitOn(MarkupTexts)

SpecMarkup == InitMarkup /\ [][Next]_vars

\* The call on the lines with odd characters.
InitOdd == InitOn(OddTexts)

SpecOdd == InitOdd /\ [][Next]_vars

\* The call on the lines of long and short words.
InitWrap == InitOn(WrapTexts)

SpecWrap == InitWrap /\ [][Next]_vars

---------------------------------------------------------------------------
(* Reading a finished file back, as a PDF consumer does: from the number   *)
(* after startxref to the cross-reference section, and from its entries to *)
(* the objects.  Offsets count bytes from 0.                               *)

\* The bytes lit stand in buf at offset off.
HasAt(buf, off, lit) ==
    /\ off >= 0
    /\ off + Len(lit) <= Len(buf)
    /\ SubSeq(buf, off + 1, off + Len(lit)) = lit

IsDigits(d) == d # <<>> /\ \A i \in 1..Len(d) : d[i] \in 48..57

RECURSIVE ParseNat(_)
ParseNat(d) ==
    IF d = <<>> THEN 0
    ELSE 10 * ParseNat(SubSeq(d, 1, Len(d) - 1)) + (d[Len(d)] - 48)

\* The digits that stand in buf at offset off.
DigitsAt(buf, off) ==
    SubSeq(buf, off + 1,
           Min({i \in (off + 1)..(Len(buf) + 1) : At(buf, i) \notin 48..57}) - 1)

\* The line before the closing "%%EOF".
LastNumberLine(buf) ==
    LET e == Len(buf) - Len(B_EOF)
        b == Max({i \in 0..(e - 1) : i = 0 \/ buf[i] = 10})
    IN  SubSeq(buf, b + 1, e - 1)

\* The file ends "startxref\n<digits>\n%%EOF".
TrailerEnds(buf) ==
    LET d == LastNumberLine(buf)
        e == Len(buf) - Len(B_EOF)
    IN  /\ HasAt(buf, e, B_EOF)
        /\ e >= 1 /\ buf[e] = 10
        /\ IsDigits(d)
        /\ HasAt(buf, e - 1 - Len(d) - Len(B_startxref), B_startxref)

FileStartxref(buf) == ParseNat(LastNumberLine(buf))

\* The count in the section's "0 <count>" line.
FileXrefCount(buf) == ParseNat(DigitsAt(buf, FileStartxref(buf) + Len(B_xref)))

\* The offset of the section's entry for identifier i; each entry is 20 bytes.
FileEntryAt(buf, i) ==
    FileStartxref(buf) + Len(B_xref)
        + Len(DigitsAt(buf, FileStartxref(buf) + Len(B_xref))) + 1 + 20 * i

\* The byte offset the entry for identifier i holds.
FileOffset(buf, i) ==
    ParseNat(SubSeq(buf, FileEntryAt(buf, i) + 1, FileEntryAt(buf, i) + 10))

\* The bytes of object i: from after its "i 0 obj\n" to before the "endobj\n"
\* that ends where the next object, or the section, begins.
FileObject(buf, i) ==
    SubSeq(buf, FileOffset(buf, i) + Len(Str(i) \o B_obj) + 1,
           (IF i + 1 < FileXrefCount(buf) THEN FileOffset(buf, i + 1)
            ELSE FileStartxref(buf)) - Len(B_endobj))

\* The body of a content-stream object o, between its "stream\n" and its
\* "\nendstream\n".
StreamBody(o) ==
    SubSeq(o, Len(B_Length) + Len(DigitsAt(o, Len(B_Length))) + Len(B_stream) + 1,
           Len(o) - Len(B_endstream))

\* The /Length a content-stream object o declares.
DeclaredLength(o) == ParseNat(DigitsAt(o, Len(B_Length)))

\* o is "<< /Length <digits> >>\nstream\n" <body> "\nendstream\n".
IsStreamObject(o) ==
    /\ HasAt(o, 0, B_Length)
    /\ IsDigits(DigitsAt(o, Len(B_Length)))
    /\ HasAt(o, Len(B_Length) + Len(DigitsAt(o, Len(B_Length))), B_stream)
    /\ HasAt(o, Len(o) - Len(B_endstream), B_endstream)
    /\ Len(o) >= Len(B_Length) + Len(DigitsAt(o, Len(B_Length)))
                    + Len(B_stream) + Len(B_endstream)

Done == pc = "done"

---------------------------------------------------------------------------
(* C1.  In the returned bytes every recorded offset is exact: the number   *)
(* after startxref is the offset at which "xref" begins, the section       *)
(* counts one entry more than there are objects, and for every identifier  *)
(* i of 1..N the i-th in-use entry holds the offset at which "i 0 obj"     *)
(* begins, which is the one place where a line of the file is "i 0 obj".   *)

C1_OffsetsExact ==
    Done =>
        /\ TrailerEnds(pdf)
        /\ HasAt(pdf, FileStartxref(pdf), B_xref)
        /\ pdf[FileStartxref(pdf)] = 10
        /\ FileXrefCount(pdf) = Len(objects) + 1
        /\ HasAt(pdf, FileEntryAt(pdf, 0), B_free)
        /\ \A i \in 1..Len(objects) :
              /\ IsDigits(SubSeq(pdf, FileEntryAt(pdf, i) + 1,
                                 FileEntryAt(pdf, i) + 10))
              /\ HasAt(pdf, FileEntryAt(pdf, i) + 10, B_inuse)
              /\ {p \in 0..Len(pdf) : HasAt(pdf, p, <<10>> \o Str(i) \o B_obj)}
                     = {FileOffset(pdf, i) - 1}
        /\ HasAt(pdf, FileEntryAt(pdf, Len(objects) + 1), B_trailer)

\* A file of several pages is finished.
C1_Witness == Done /\ Len(objects) >= 7

---------------------------------------------------------------------------
(* C2.  For every page, the /Length its content-stream object declares in  *)
(* the returned bytes is the number of bytes between that object's         *)
(* "stream\n" and "\nendstream", and those bytes are what make_page        *)
(* produced for the page.                                                  *)

C2_LengthExact ==
    Done =>
        \A k \in 1..Len(pages) :
            LET o == FileObject(pdf, page_ids[k] - 1)
            IN  /\ IsStreamObject(o)
                /\ DeclaredLength(o) = Len(StreamBody(o))
                /\ StreamBody(o) = make_page(pages[k])

\* A finished file whose streams hold escaped text and several lines.
C2_Witness ==
    Done /\ \E k \in 1..Len(pages) :
                /\ Len(pages[k]) >= 2
                /\ \E j \in 1..Len(pages[k]) : escape(pages[k][j]) # pages[k][j]

---------------------------------------------------------------------------
(* What C3 and C4 read in a file.                                          *)

\* The identifiers of the objects of the file that are page objects.
FilePageIds(buf) ==
    {i \in 1..(FileXrefCount(buf) - 1) : HasAt(FileObject(buf, i), 0, B_PageA)}

\* The elements of a set of numbers, ascending.
Ascending(S) ==
    [k \in 1..Cardinality(S) |->
        CHOOSE x \in S : Cardinality({y \in S : y < x}) = k - 1]

\* "<< /Type /Pages /Kids [i 0 R j 0 R ...] /Count c >>"
PageTreeText(ids, c) ==
    <<60, 60, 32, 47, 84, 121, 112, 101, 32, 47, 80, 97, 103, 101, 115, 32,
      47, 75, 105, 100, 115, 32, 91>>
        \o Join(<<32>>, [k \in 1..Len(ids) |-> Str(ids[k]) \o <<32, 48, 32, 82>>])
        \o <<93, 32, 47, 67, 111, 117, 110, 116, 32>> \o Str(c) \o <<32, 62, 62>>

(* C3.  With n wrapped lines the document has max(1, ceil(n/41)) page      *)
(* objects, page p holds lines 41(p-1)+1 .. 41p in their order, and the    *)
(* Pages object of the returned bytes lists the page objects' identifiers, *)
(* each once and in document order, with /Count their number.              *)

C3_Pagination ==
    Done =>
        LET n == Len(lines)
            P == IF n = 0 THEN 1
                 ELSE CHOOSE q \in 1..n : 41 * (q - 1) < n /\ n <= 41 * q
        IN  /\ Len(pages) = P
            /\ \A p \in 1..P :
                  pages[p] = SubSeq(lines, 41 * (p - 1) + 1,
                                    IF 41 * p < n THEN 41 * p ELSE n)
            /\ Cardinality(FilePageIds(pdf)) = P
            /\ FileObject(pdf, 2) = PageTreeText(Ascending(FilePageIds(pdf)), P)

\* A finished file of three pages, the last one not full.
C3_Witness == Done /\ Len(pages) = 3 /\ Len(pages[3]) = 1 /\ Len(lines) = 83

---------------------------------------------------------------------------
(* The empty text.                                                         *)

\* The show-text operators of a stream body: its lines that end ") Tj".
ShowTextCount(body) ==
    Cardinality({p \in 0..Len(body) : HasAt(body, p, B_Tj \o <<10>>)})

\* "<< /Type /Pages /Kids [5 0 R] /Count 1 >>"
OneChildTree ==
    <<60, 60, 32, 47, 84, 121, 112, 101, 32, 47, 80, 97, 103, 101, 115, 32,
      47, 75, 105, 100, 115, 32, 91, 53, 32, 48, 32, 82, 93, 32, 47, 67, 111,
      117, 110, 116, 32, 49, 32, 62, 62>>

\* "BT\n/F1 12 Tf\n54 738 Td\n16 TL\n() Tj\nET"
BlankLineStream ==
    <<66, 84, 10, 47, 70, 49, 32, 49, 50, 32, 84, 102, 10, 53, 52, 32, 55, 51,
      56, 32, 84, 100, 10, 49, 54, 32, 84, 76, 10, 40, 41, 32, 84, 106, 10,
      69, 84>>

\* C4 as claimed.  For the empty text the document has one page, whose
\* stream holds no show-text operator, and one child in the page tree.
C4_EmptyNoShowText ==
    (Done /\ md_text = <<>>) =>
        /\ FilePageIds(pdf) = {5}
        /\ FileObject(pdf, 2) = OneChildTree
        /\ ShowTextCount(StreamBody(FileObject(pdf, 4))) = 0

\* C4 as amended.  For the empty text the document has one page and one
\* child in the page tree, and the page's stream shows the one empty line
\* the empty text is split into with one show-text operator, "() Tj".
C4_EmptyOneShowText ==
    (Done /\ md_text = <<>>) =>
        /\ FilePageIds(pdf) = {5}
        /\ FileObject(pdf, 2) = OneChildTree
        /\ ShowTextCount(StreamBody(FileObject(pdf, 4))) = 1
        /\ StreamBody(FileObject(pdf, 4)) = BlankLineStream

\* The file of the empty text is finished.
C4_Witness == Done /\ md_text = <<>> /\ lines = << <<>> >>

---------------------------------------------------------------------------
(* The physical lines the wrapper makes of a stripped, sanitized line.     *)

\* The tokens of s longer than w: the runs of non-whitespace between
\* whitespace and the ends of s.
LongTokens(s, w) ==
    LET starts == {i \in 1..Len(s) :
                      s[i] \notin PyWhitespace /\ At(s, i - 1) \in PyWhitespace \cup {-1}}
        end(i) == Min({j \in i..Len(s) : At(s, j + 1) \in PyWhitespace \cup {-1}})
    IN  {SubSeq(s, i, end(i)) : i \in {x \in starts : end(x) - x + 1 > w}}

NonWhitespace(s) == SelectSeq(s, LAMBDA c : c \notin PyWhitespace)

\* The loop of line 32 has wrapped the only line of the text.
WrappedOneLine == pc = "loop" /\ raw_i = 1 /\ Len(lines_in) = 1

\* C5 as claimed.  A physical line is at most 90 long or is one token longer
\* than 90, and every such token is a physical line, unsplit.
C5_LongTokenUnsplit ==
    WrappedOneLine =>
        /\ \A l \in 1..Len(lines) :
              Len(lines[l]) <= 90 \/ lines[l] \in LongTokens(stripped, 90)
        /\ \A t \in LongTokens(stripped, 90) :
              \E l \in 1..Len(lines) : lines[l] = t

\* C5 as amended.  Every physical line is at most 90 long, with no
\* exception: a token longer than 90 is cut into pieces that fit, and the
\* lines together hold every non-whitespace character of the stripped
\* line, in order.
C5_LinesWithinWidth ==
    /\ \A l \in 1..Len(lines) : Len(lines[l]) <= 90
    /\ WrappedOneLine => NonWhitespace(Concat(lines)) = NonWhitespace(stripped)

\* A line with a token longer than 90 has been wrapped.
C5_Witness ==
    WrappedOneLine /\ LongTokens(stripped, 90) # {} /\ Len(lines) >= 2

---------------------------------------------------------------------------
(* The table of _sanitize_for_pdf read one character at a time.            *)

InTable(c) == \E r \in 1..Len(replacements) : replacements[r][1] = c

TableValue(c) ==
    replacements[CHOOSE r \in 1..Len(replacements) : replacements[r][1] = c][2]

SanitizedChar(c) ==
    IF InTable(c) THEN TableValue(c)
    ELSE IF c >= 128 THEN <<63>>
    ELSE <<c>>

(* C6.  Line 34 leaves only code points below 128: a character of the      *)
(* table becomes its ASCII replacement, any other character from 128 on    *)
(* becomes "?", and the characters below 128 stay.                         *)

C6_SanitizedAscii ==
    [][pc = "sanitize" =>
          /\ \A i \in 1..Len(stripped') : stripped'[i] < 128
          /\ stripped' = Concat([i \in 1..Len(stripped) |->
                                    SanitizedChar(stripped[i])])
      ]_vars

\* A line with a character of the table and one outside it, both from 128
\* on, has been sanitized.
C6_Witness ==
    /\ pc = "wrap"
    /\ \E i \in 1..Len(raw) : raw[i] >= 128 /\ InTable(raw[i])
    /\ \E i \in 1..Len(raw) : raw[i] >= 128 /\ ~InTable(raw[i])
    /\ \A i \in 1..Len(stripped) : stripped[i] < 128

---------------------------------------------------------------------------
(* Reading a string of a content stream back.                              *)

\* The "\" right before position i of e.
BackslashesBefore(e, i) ==
    i - 1 - Max({k \in 0..(i - 1) : k = 0 \/ e[k] # 92})

\* What a PDF reader makes of the string (e): a "\" that is not itself
\* escaped escapes the next character.
Unescape(e) ==
    Concat([i \in 1..Len(e) |->
               IF e[i] = 92 /\ BackslashesBefore(e, i) % 2 = 0
               THEN <<>> ELSE <<e[i]>>])

\* No "(" or ")" of e is bare and no "\" is left open at its end.
ClosedString(e) ==
    /\ \A i \in 1..Len(e) : e[i] \in {40, 41} => BackslashesBefore(e, i) % 2 = 1
    /\ BackslashesBefore(e, Len(e) + 1) % 2 = 0

EscapedChar(c) == IF c \in {92, 40, 41} THEN <<92, c>> ELSE <<c>>

\* The j-th show-text line of the stream of page k in the file.
FileShowText(k, j) ==
    Split(StreamBody(FileObject(pdf, page_ids[k] - 1)))[3 + 2 * j]

(* C7.  Every line of a page stands in the page's stream escaped once:     *)
(* each "\", "(" and ")" with one "\" before it and every other character  *)
(* as it is, so that reading the string back gives the line.               *)

C7_EscapedOnce ==
    Done =>
        /\ \A k \in 1..Len(pages) : \A j \in 1..Len(pages[k]) :
              LET tj == FileShowText(k, j)
                  e == SubSeq(tj, 2, Len(tj) - Len(B_Tj))
              IN  /\ tj = <<40>> \o e \o B_Tj
                  /\ e = Concat([i \in 1..Len(pages[k][j]) |->
                                    EscapedChar(pages[k][j][i])])
                  /\ ClosedString(e)
                  /\ Unescape(e) = pages[k][j]
        /\ md_text = <<40, 118, 97, 108, 117, 101, 41>> =>      \* "(value)"
              FileShowText(1, 1) =                              \* "(\(value\)) Tj"
                  <<40, 92, 40, 118, 97, 108, 117, 101, 92, 41, 41, 32, 84, 106>>

\* A finished file with a line that holds a backslash and a parenthesis.
C7_Witness ==
    Done /\ \E i, j \in 1..Len(pages[1][1]) :
                pages[1][1][i] = 92 /\ pages[1][1][j] \in {40, 41}

---------------------------------------------------------------------------
(* What lines 17-20 and 33 take away from a line.                          *)

\* The place of a marker in the order line 33 strips them in.
MarkerRank(c) == CASE c = 35 -> 1 [] c = 42 -> 2 [] c = 45 -> 3 [] c = 62 -> 4

\* The first n characters of s are markers and spaces, the markers in the
\* order "#", "*", "-", ">".
MarkersInOrder(s, n) ==
    /\ \A i \in 1..n : s[i] \in {35, 42, 45, 62, 32}
    /\ \A i, j \in 1..n :
          (i < j /\ s[i] # 32 /\ s[j] # 32) => MarkerRank(s[i]) <= MarkerRank(s[j])

\* Line 33 has stripped a line.
StrippedOne == pc = "sanitize"

\* The part of raw that line 33 took away.
Removed == SubSeq(raw, 1, Len(raw) - Len(stripped))

\* C8 as claimed.  What is taken from the start of a line is one marker, a
\* run of "#" or one "-", "*" or ">", with the spaces around it; every
\* other "#", "-", "*" and ">" stays.
C8_SingleMarkerOnly ==
    StrippedOne =>
        LET M == {i \in 1..Len(Removed) : Removed[i] # 32}
        IN  /\ raw = Removed \o stripped
            /\ \/ M = {}
               \/ \A i \in M : Removed[i] = 35 /\ (i + 1 \in M \/ i = Max(M))
               \/ Cardinality(M) = 1 /\ \A i \in M : Removed[i] \in {42, 45, 62}

\* C8 as amended.  No backtick is left in a line, and line 33 takes from the
\* start of the line the longest run of markers and spaces whose markers
\* come in the order "#", "*", "-", ">": several markers, and markers with
\* no space after them, go; everything after that run stays as it is.
C8_LeadingMarkersInOrder ==
    /\ \A l \in 1..Len(lines_in) : \A i \in 1..Len(lines_in[l]) :
          lines_in[l][i] # 96
    /\ (pc # "start" /\ \A i \in 1..Len(md_text) : md_text[i] \notin {10, 13}) =>
          lines_in = <<Rstrip(SelectSeq(md_text, LAMBDA c : c # 96))>>
    /\ StrippedOne =>
          /\ raw = Removed \o stripped
          /\ Len(Removed) = Max({n \in 0..Len(raw) : MarkersInOrder(raw, n)})

\* A line that begins with two different markers and has a marker further
\* on has been stripped of both and has kept the third.
C8_Witness ==
    /\ StrippedOne
    /\ \E i, j \in 1..Len(Removed) :
          /\ Removed[i] # 32 /\ Removed[j] # 32 /\ Removed[i] # Removed[j]
    /\ \E i \in 1..Len(stripped) : stripped[i] \in {35, 42, 45, 62}

---------------------------------------------------------------------------
(* How the buffer and the objects change from statement to statement.      *)

IsPrefix(s, t) == Len(s) <= Len(t) /\ SubSeq(t, 1, Len(s)) = s

\* Object i is in the buffer as it is in the list objs.
EmittedFrom(objs, i) ==
    HasAt(pdf, offsets[i], Str(i) \o B_obj \o objs[i] \o B_endobj)

\* C9 as claimed.  The buffer only grows by appending, the Pages object is
\* never serialized before its kids are fixed, and what was serialized for
\* an object stays that object's bytes.
C9_SinglePassWriteOnce ==
    [][/\ IsPrefix(pdf, pdf')
       /\ \A i \in 1..Len(offsets') :
             EmittedFrom(objects, i)' /\ (objects2' # <<>> => EmittedFrom(objects2, i)')
      ]_vars

\* C9 as amended.  Every statement but line 94 appends to the buffer, and
\* line 94 starts it over, dropping the first pass with its placeholder
\* Pages object; the list of objects only grows; objects2, built once when
\* every page identifier is fixed, is the list with only the Pages object
\* replaced, and is what the buffer holds from then on.
C9_TwoPasses ==
    /\ [][/\ (pc' = "pass2" /\ pc = "pass1") => pdf' = PDF_HEADER
          /\ ~(pc' = "pass2" /\ pc = "pass1") => IsPrefix(pdf, pdf')
          /\ IsPrefix(objects, objects')
          /\ objects2 # <<>> => (objects2' = objects2 /\ page_ids' = page_ids)
         ]_vars
    /\ [](objects2 # <<>> =>
            /\ Len(page_ids) = Len(pages)
            /\ Len(objects2) = Len(objects)
            /\ \A i \in 1..Len(objects) : i # 2 => objects2[i] = objects[i]
            /\ objects[2] = PAGES_PLACEHOLDER
            /\ objects2[2] = PageTreeText(page_ids, Len(pages))
            /\ \A i \in 1..Len(offsets) : EmittedFrom(objects2, i))

\* The second pass has just begun: the first pass's buffer held every
\* object, and the buffer is the header again.
C9_Witness ==
    /\ pc = "pass2"
    /\ pdf = PDF_HEADER
    /\ offsets = <<>>
    /\ Len(objects2) >= 7
    /\ objects2[2] # objects[2]

---------------------------------------------------------------------------
(* A page object as the file must hold it.                                 *)

\* "<< /Type /Page /Parent 2 0 R /MediaBox [0 0 612 792] /Resources
\*  << /Font << /F1 3 0 R >> >> /Contents c 0 R >>"
PageObjectText(c) ==
    <<60, 60, 32, 47, 84, 121, 112, 101, 32, 47, 80, 97, 103, 101, 32, 47,
      80, 97, 114, 101, 110, 116, 32, 50, 32, 48, 32, 82, 32, 47, 77, 101,
      100, 105, 97, 66, 111, 120, 32, 91, 48, 32, 48, 32, 54, 49, 50, 32, 55,
      57, 50, 93, 32, 47, 82, 101, 115, 111, 117, 114, 99, 101, 115, 32, 60,
      60, 32, 47, 70, 111, 110, 116, 32, 60, 60, 32, 47, 70, 49, 32, 51, 32,
      48, 32, 82, 32, 62, 62, 32, 62, 62, 32, 47, 67, 111, 110, 116, 101,
      110, 116, 115, 32>> \o Str(c) \o <<32, 48, 32, 82, 32, 62, 62>>

(* C10.  With P pages the identifiers are 1..3+2P: Catalog, Pages, Font,   *)
(* then each page's content stream and page object; and in the returned    *)
(* bytes every reference names the object meant: /Pages and /Parent the    *)
(* Pages object, /F1 the one Font object, and the k-th page's /Contents    *)
(* the stream built from the k-th page's lines.                            *)

C10_References ==
    Done =>
        LET P == Len(pages)
        IN  /\ FileXrefCount(pdf) - 1 = 3 + 2 * P
            /\ obj_id = 3 + 2 * P + 1
            /\ FileObject(pdf, 1) = CATALOG
            /\ HasAt(FileObject(pdf, 2), 0, B_PagesA)
            /\ FileObject(pdf, 3) = FONT
            /\ \A i \in 1..(3 + 2 * P) : i # 3 => FileObject(pdf, i) # FONT
            /\ \A k \in 1..P :
                  /\ IsStreamObject(FileObject(pdf, 2 * k + 2))
                  /\ StreamBody(FileObject(pdf, 2 * k + 2)) = make_page(pages[k])
                  /\ FileObject(pdf, 2 * k + 3) = PageObjectText(2 * k + 2)

\* A finished file of several pages whose streams differ.
C10_Witness ==
    Done /\ Len(pages) >= 2 /\ make_page(pages[1]) # make_page(pages[2])

===========================================================================
